---- MODULE Spec2Model ----
(***************************************************************************)
(* A model of src/src/main.py, the Notion -> Slack content reminder.       *)
(*                                                                         *)
(* Python values are modelled as tagged records (None, str, list, dict),   *)
(* a str as the sequence of its characters, a dict as a function from its  *)
(* keys.  A call that can raise returns a record whose exc field names the *)
(* exception ("" when the call returns normally).                          *)
(***************************************************************************)
EXTENDS Integers, Sequences, FiniteSets, TLC

VARIABLES
    env,                \* the process environment read at lines 23-26
    pc,                 \* position of the process in main.py
    exit_status,        \* the process exit status (meaningful once pc is an exit)
    today,              \* the local calendar date datetime.now() reads
    midnights,          \* how many times the date changed during the run
    response,           \* the pages notion.databases.query returned
    page_idx,           \* index of the page the for loop of line 93 is at
    stage_idx,          \* index of the entry the for loop of line 113 is at
    title,              \* main's local: title
    author_mention,     \* main's local: author_mention
    dates_to_check,     \* main's local: the three (stage, date_str) entries
    processed_pages,    \* main's local counter
    notifications_sent, \* main's local counter
    calls,              \* the network calls made so far, in order
    log,                \* the log records emitted so far, in order
    evals,              \* history: the proximity evaluations main made, each with
                        \* the clock it read and the outcome of the post it led to
    fn,                 \* the helper a unit call applied ("" before the call)
    arg,                \* the argument of the unit call
    ret                 \* the outcome of the unit call

vars == <<env, pc, exit_status, today, midnights, response, page_idx, stage_idx,
          title, author_mention, dates_to_check, processed_pages,
          notifications_sent, calls, log, evals, fn, arg, ret>>

runVars == <<env, pc, exit_status, midnights, response, page_idx, stage_idx,
             title, author_mention, dates_to_check, processed_pages,
             notifications_sent, calls, log, evals>>

\* bounds of the model
MaxPages == 2

MaxMidnights == 1

(***************************************************************************)
(* Python values                                                           *)
(***************************************************************************)
PyNone == [k |-> "None"]

PyStr(chars) == [k |-> "str", s |-> chars]

PyList(items) == [k |-> "list", items |-> items]

PyDict(map) == [k |-> "dict", map |-> map]

EmptyMap == [key \in {} |-> PyNone]

\* bool(v): None, "", [] and {} are falsy
Truthy(v) ==
    CASE v.k = "None" -> FALSE
      [] v.k = "str"  -> v.s # <<>>
      [] v.k = "list" -> v.items # <<>>
      [] v.k = "dict" -> DOMAIN v.map # {}

Returns(v) == [exc |-> "", val |-> v]

Raises(e) == [exc |-> e, val |-> PyNone]

\* v.get(key, default): only a dict has the attribute get
DictGet(v, key, default) ==
    IF v.k # "dict" THEN Raises("AttributeError")
    ELSE IF key \in DOMAIN v.map THEN Returns(v.map[key])
    ELSE Returns(default)

\* v[0]
Index0(v) ==
    CASE v.k = "None" -> Raises("TypeError")
      [] v.k = "str"  -> IF v.s = <<>> THEN Raises("IndexError")
                         ELSE Returns(PyStr(<<v.s[1]>>))
      [] v.k = "list" -> IF v.items = <<>> THEN Raises("IndexError")
                         ELSE Returns(v.items[1])
      [] v.k = "dict" -> Raises("KeyError")

\* v[key] for a str key
Subscript(v, key) ==
    CASE v.k = "dict" -> IF key \in DOMAIN v.map THEN Returns(v.map[key])
                         ELSE Raises("KeyError")
      [] OTHER        -> Raises("TypeError")

\* the dict {key: v}
Single(key, v) == PyDict([x \in {key} |-> v])

\* the dict {"type": t, key: v}
Typed(t, key, v) == PyDict([x \in {"type", key} |-> IF x = "type" THEN t ELSE v])

(***************************************************************************)
(* Calendar arithmetic of datetime: a date is [year, month, day]           *)
(***************************************************************************)
Date(y, m, d) == [year |-> y, month |-> m, day |-> d]

DAYS_IN_MONTH == <<31, 28, 31, 30, 31, 30, 31, 31, 30, 31, 30, 31>>

DAYS_BEFORE_MONTH == <<0, 31, 59, 90, 120, 151, 181, 212, 243, 273, 304, 334>>

is_leap(year) == year % 4 = 0 /\ (year % 100 # 0 \/ year % 400 = 0)

days_in_month(year, month) ==
    IF month = 2 /\ is_leap(year) THEN 29 ELSE DAYS_IN_MONTH[month]

days_before_year(year) ==
    LET y == year - 1
    IN  y * 365 + (y \div 4) - (y \div 100) + (y \div 400)

days_before_month(year, month) ==
    DAYS_BEFORE_MONTH[month] + (IF month > 2 /\ is_leap(year) THEN 1 ELSE 0)

\* date.toordinal()
ymd2ord(d) ==
    days_before_year(d.year) + days_before_month(d.year, d.month) + d.day

\* date.fromordinal(n)
ord2ymd(ordinal) ==
    LET n0   == ordinal - 1
        n400 == n0 \div 146097
        r400 == n0 % 146097
        n100 == r400 \div 36524
        r100 == r400 % 36524
        n4   == r100 \div 1461
        r4   == r100 % 1461
        n1   == r4 \div 365
        n    == r4 % 365
        year == n400 * 400 + 1 + n100 * 100 + n4 * 4 + n1
        leap == n1 = 3 /\ (n4 # 24 \/ n100 = 3)
        m0   == (n + 50) \div 32
        p0   == DAYS_BEFORE_MONTH[m0] + (IF m0 > 2 /\ leap THEN 1 ELSE 0)
        m    == IF p0 > n THEN m0 - 1 ELSE m0
        p    == IF p0 > n
                THEN p0 - (DAYS_IN_MONTH[m] + (IF m = 2 /\ leap THEN 1 ELSE 0))
                ELSE p0
    IN  IF n1 = 4 \/ n100 = 4 THEN Date(year - 1, 12, 31)
        ELSE Date(year, m, n - p + 1)

\* (now + timedelta(days=n)).date()
AddDays(d, n) == ord2ymd(ymd2ord(d) + n)

(***************************************************************************)
(* datetime.strptime(date_str, '%Y-%m-%d')                                 *)
(*                                                                         *)
(* The format compiles to the regular expression                           *)
(*   (\d\d\d\d)-(1[0-2]|0[1-9]|[1-9])-(3[0-1]|[1-2]\d|0[1-9]|[1-9]| [1-9]) *)
(* matched at the start of the string; text left after the match, a month  *)
(* or day outside the calendar and year 0 raise ValueError.                *)
(***************************************************************************)
Digits == <<"0", "1", "2", "3", "4", "5", "6", "7", "8", "9">>

IsDigit(c) == \E i \in 1..10 : Digits[i] = c

DigitVal(c) == (CHOOSE i \in 1..10 : Digits[i] = c) - 1

\* the character at position i, "" past the end
At(s, i) == IF i \in 1..Len(s) THEN s[i] ELSE ""

InRange(c, lo, hi) == IsDigit(c) /\ DigitVal(c) >= lo /\ DigitVal(c) <= hi

\* the month alternatives that match at p, in the regex's order, as lengths
MonthAlts(s, p) ==
    (IF At(s, p) = "1" /\ InRange(At(s, p + 1), 0, 2) THEN <<2>> ELSE <<>>)
    \o (IF At(s, p) = "0" /\ InRange(At(s, p + 1), 1, 9) THEN <<2>> ELSE <<>>)
    \o (IF InRange(At(s, p), 1, 9) THEN <<1>> ELSE <<>>)

\* the length of the first day alternative that matches at p, 0 when none does
DayLen(s, p) ==
    IF At(s, p) = "3" /\ InRange(At(s, p + 1), 0, 1) THEN 2
    ELSE IF InRange(At(s, p), 1, 2) /\ IsDigit(At(s, p + 1)) THEN 2
    ELSE IF At(s, p) = "0" /\ InRange(At(s, p + 1), 1, 9) THEN 2
    ELSE IF InRange(At(s, p), 1, 9) THEN 1
    ELSE IF At(s, p) = " " /\ InRange(At(s, p + 1), 1, 9) THEN 2
    ELSE 0

\* the decimal value of s[p .. p+n-1], a blank counting as no digit
Number(s, p, n) ==
    LET val(i) == IF IsDigit(At(s, i)) THEN DigitVal(At(s, i)) ELSE 0
    IN  IF n = 1 THEN val(p)
        ELSE IF n = 2 THEN 10 * val(p) + val(p + 1)
        ELSE 1000 * val(p) + 100 * val(p + 1) + 10 * val(p + 2) + val(p + 3)

strptime(s) ==
    LET yearOk == \A i \in 1..4 : IsDigit(At(s, i))
        alts   == MonthAlts(s, 6)
        \* the first month alternative after which "-" and a day match
        good   == {i \in 1..Len(alts) :
                      /\ At(s, 6 + alts[i]) = "-"
                      /\ DayLen(s, 7 + alts[i]) > 0}
        mlen   == alts[CHOOSE i \in good : \A j \in good : i <= j]
        dlen   == DayLen(s, 7 + mlen)
        y      == Number(s, 1, 4)
        m      == Number(s, 6, mlen)
        d      == Number(s, 7 + mlen, dlen)
        fail   == [exc |-> "ValueError", date |-> Date(0, 0, 0)]
    IN  IF ~yearOk \/ At(s, 5) # "-" \/ good = {} THEN fail
        ELSE IF 6 + mlen + dlen # Len(s) THEN fail
        ELSE IF y < 1 \/ d > days_in_month(y, m) THEN fail
        ELSE [exc |-> "", date |-> Date(y, m, d)]

(***************************************************************************)
(* check_date_proximity(date_str), with `now` the date datetime.now() gives*)
(***************************************************************************)
\* a faulty variant: compares with today instead of tomorrow
check_date_proximity_today(date_str, now) ==
    IF ~Truthy(date_str) THEN [exc |-> "", truth |-> FALSE]
    ELSE IF date_str.k # "str" THEN [exc |-> "TypeError", truth |-> FALSE]
    ELSE LET date == strptime(date_str.s)
         IN  IF date.exc # "" THEN [exc |-> date.exc, truth |-> FALSE]
             ELSE [exc |-> "", truth |-> date.date = now]

\* a faulty variant: a date that does not parse counts as not due
check_date_proximity_lenient(date_str, now) ==
    IF ~Truthy(date_str) THEN [exc |-> "", truth |-> FALSE]
    ELSE IF date_str.k # "str" THEN [exc |-> "", truth |-> FALSE]
    ELSE LET date     == strptime(date_str.s)
             tomorrow == AddDays(now, 1)
         IN  [exc |-> "", truth |-> date.exc = "" /\ date.date = tomorrow]

\* a faulty variant: without the guard of line 37
check_date_proximity_unguarded(date_str, now) ==
    IF date_str.k # "str" THEN [exc |-> "TypeError", truth |-> FALSE]
    ELSE LET date     == strptime(date_str.s)
             tomorrow == AddDays(now, 1)
         IN  IF date.exc # "" THEN [exc |-> date.exc, truth |-> FALSE]
             ELSE [exc |-> "", truth |-> date.date = tomorrow]

check_date_proximity(date_str, now) ==
    IF ~Truthy(date_str) THEN [exc |-> "", truth |-> FALSE]
    ELSE IF date_str.k # "str" THEN [exc |-> "TypeError", truth |-> FALSE]
    ELSE LET date     == strptime(date_str.s)
             tomorrow == AddDays(now, 1)
         IN  IF date.exc # "" THEN [exc |-> date.exc, truth |-> FALSE]
             ELSE [exc |-> "", truth |-> date.date = tomorrow]

(***************************************************************************)
(* Constants for Notion property names, and the str literals of the code   *)
(***************************************************************************)
NOTION_FIRST_DRAFT_DATE_PROP == "first_draft_date"

NOTION_READY_BY_DATE_PROP == "ready_by_date"

NOTION_PUBLISHING_DATE_PROP == "publishing_date"

NOTION_TITLE_PROP == "title"

NOTION_AUTHOR_PROP == "author"

Foo == PyStr(<<"F", "o", "o">>)

Bar == PyStr(<<"B", "a", "r">>)

Untitled == PyStr(<<"U", "n", "t", "i", "t", "l", "e", "d">>)

UnknownAuthor == PyStr(<<"U", "n", "k", "n", "o", "w", "n", " ", "A", "u", "t", "h", "o", "r">>)

TypeTitle == PyStr(<<"t", "i", "t", "l", "e">>)

TypePeople == PyStr(<<"p", "e", "o", "p", "l", "e">>)

TypeDate == PyStr(<<"d", "a", "t", "e">>)

(***************************************************************************)
(* Field extraction                                                        *)
(***************************************************************************)
get_page_title(properties) ==
    LET got     == DictGet(properties, NOTION_TITLE_PROP, PyDict(EmptyMap))
        prop    == got.val
        type    == DictGet(prop, "type", PyNone)
        payload == DictGet(prop, "title", PyNone)
        entries == Subscript(prop, "title")
        first   == Index0(entries.val)
    IN  IF got.exc # "" THEN got
        ELSE IF type.exc # "" THEN type
        ELSE IF type.val # TypeTitle THEN Returns(Untitled)
        ELSE IF payload.exc # "" THEN payload
        ELSE IF ~Truthy(payload.val) THEN Returns(Untitled)
        ELSE IF entries.exc # "" THEN entries
        ELSE IF first.exc # "" THEN first
        ELSE DictGet(first.val, "plain_text", Untitled)

get_page_author_mention(properties) ==
    LET got     == DictGet(properties, NOTION_AUTHOR_PROP, PyDict(EmptyMap))
        prop    == got.val
        type    == DictGet(prop, "type", PyNone)
        payload == DictGet(prop, "people", PyNone)
        entries == Subscript(prop, "people")
        first   == Index0(entries.val)
    IN  IF got.exc # "" THEN got
        ELSE IF type.exc # "" THEN type
        ELSE IF type.val # TypePeople THEN Returns(UnknownAuthor)
        ELSE IF payload.exc # "" THEN payload
        ELSE IF ~Truthy(payload.val) THEN Returns(UnknownAuthor)
        ELSE IF entries.exc # "" THEN entries
        ELSE IF first.exc # "" THEN first
        ELSE DictGet(first.val, "name", UnknownAuthor)

get_date_property(properties, prop_name) ==
    LET got     == DictGet(properties, prop_name, PyDict(EmptyMap))
        prop    == got.val
        type    == DictGet(prop, "type", PyNone)
        payload == DictGet(prop, "date", PyNone)
        object  == Subscript(prop, "date")
    IN  IF got.exc # "" THEN got
        ELSE IF type.exc # "" THEN type
        ELSE IF type.val # TypeDate THEN Returns(PyNone)
        ELSE IF payload.exc # "" THEN payload
        ELSE IF ~Truthy(payload.val) THEN Returns(PyNone)
        ELSE IF object.exc # "" THEN object
        ELSE DictGet(object.val, "start", PyNone)

(***************************************************************************)
(* The process: module-level configuration check, then main()              *)
(***************************************************************************)
EnvNames == {"NOTION_TOKEN", "SLACK_BOT_TOKEN", "SLACK_CHANNEL_ID", "NOTION_DATABASE_ID"}

\* a faulty variant: any() in place of all()
any_configured(e) == \E n \in EnvNames : Truthy(e[n])

\* all([NOTION_TOKEN, SLACK_BOT_TOKEN, SLACK_CHANNEL_ID, NOTION_DATABASE_ID])
all_configured(e) == \A n \in EnvNames : Truthy(e[n])

LogRecord(level, msg, detail) == [level |-> level, msg |-> msg, detail |-> detail]

\* the except clauses of main: what the handler of exception exc logs
handle_exception(exc) ==
    IF exc = "APIResponseError"
    THEN LogRecord("ERROR", "Notion API Error", <<exc>>)
    ELSE LogRecord("ERROR", "An unexpected error occurred", <<exc>>)

\* a faulty variant: a handled exception ends the process with status 1
main_exit_status_failing(exc) == IF exc = "" THEN 0 ELSE 1

\* the status the process ends with once main() is over, exc being the
\* exception a handler of main caught ("" when the run reached its end)
main_exit_status(exc) == 0

\* the message of line 50, as the segments the f-string joins
message(author, post, stage) ==
    <<author, " - Your post '", post, "', has the ", stage,
      " date coming up tomorrow - please ensure that your content is ready and reviewed as per the right stage.">>

\* what chat_postMessage can do: post the message, refuse it with a
\* SlackApiError, or fail below the API (connection, timeout) with an
\* exception that is not a SlackApiError
DeliveryOutcomes == {"ok", "SlackApiError", "URLError"}

\* send_slack_message: the call it makes, what it logs, what it raises
send_slack_message(author, post, stage, outcome, channel) ==
    [call |-> [api |-> "chat_postMessage", channel |-> channel,
               text |-> message(author, post, stage), result |-> outcome],
     log  |-> <<LogRecord("INFO", "Sending Slack message", <<stage>>)>>
              \o (IF outcome = "SlackApiError"
                  THEN <<LogRecord("ERROR", "Error sending Slack message", <<outcome>>)>>
                  ELSE <<>>),
     exc  |-> IF outcome \in {"ok", "SlackApiError"} THEN "" ELSE outcome]

\* a faulty variant: only a delivered message is counted
count_notification_delivered(sent, outcome) ==
    IF outcome = "ok" THEN sent + 1 ELSE sent

\* line 117
count_notification(sent, outcome) == sent + 1

\* lines 28-33
ConfigCheck ==
    /\ pc = "load"
    /\ IF ~all_configured(env)
       THEN /\ log' = Append(log, LogRecord("ERROR", "Missing one or more environment variables", <<>>))
            /\ pc' = "exited"
            /\ exit_status' = 1
       ELSE /\ pc' = "main"
            /\ UNCHANGED <<log, exit_status>>
    /\ UNCHANGED <<env, today, midnights, response, page_idx, stage_idx, title,
                   author_mention, dates_to_check, processed_pages,
                   notifications_sent, calls, evals, fn, arg, ret>>

QueryCall == [api |-> "databases.query", database_id |-> env["NOTION_DATABASE_ID"]]

StartLog ==
    <<LogRecord("INFO", "Starting Notion content reminder script.", <<>>),
      LogRecord("INFO", "Querying Notion database", <<>>)>>

\* lines 85-92, the query answering with a page of results
QueryReturns(results) ==
    /\ pc = "main"
    /\ calls' = Append(calls, QueryCall)
    /\ log' = log \o StartLog
    /\ response' = Single("results", PyList(results))
    /\ processed_pages' = 0
    /\ notifications_sent' = 0
    /\ page_idx' = 0
    /\ pc' = "page"
    /\ UNCHANGED <<env, exit_status, today, midnights, stage_idx, title,
                   author_mention, dates_to_check, evals, fn, arg, ret>>

\* lines 85-89 and 121-124, the query raising exc
QueryRaises(exc) ==
    /\ pc = "main"
    /\ calls' = Append(calls, QueryCall)
    /\ log' = Append(log \o StartLog, handle_exception(exc))
    /\ pc' = "exited"
    /\ exit_status' = main_exit_status(exc)
    /\ UNCHANGED <<env, today, midnights, response, page_idx, stage_idx, title,
                   author_mention, dates_to_check, processed_pages,
                   notifications_sent, evals, fn, arg, ret>>

Results == DictGet(response, "results", PyList(<<>>)).val.items

StageNames == <<"first draft", "final draft", "published version">>

StageProps ==
    <<NOTION_FIRST_DRAFT_DATE_PROP, NOTION_READY_BY_DATE_PROP,
      NOTION_PUBLISHING_DATE_PROP>>

\* the first exception among the results rs, "" when none raised
FirstExc(rs) ==
    IF \A i \in 1..Len(rs) : rs[i].exc = "" THEN ""
    ELSE rs[CHOOSE i \in 1..Len(rs) :
                rs[i].exc # "" /\ \A j \in 1..(i - 1) : rs[j].exc = ""].exc

\* lines 93-110: the loop takes the next page and extracts its fields
NextPage ==
    /\ pc = "page"
    /\ page_idx < Len(Results)
    /\ LET page       == Results[page_idx + 1]
           properties == DictGet(page, "properties", PyDict(EmptyMap))
           t          == get_page_title(properties.val)
           a          == get_page_author_mention(properties.val)
           d          == [i \in 1..3 |-> get_date_property(properties.val, StageProps[i])]
           exc        == FirstExc(<<properties, t, a, d[1], d[2], d[3]>>)
       IN  /\ page_idx' = page_idx + 1
           /\ processed_pages' = processed_pages + 1
           /\ IF exc = ""
              THEN /\ title' = t.val
                   /\ author_mention' = a.val
                   /\ dates_to_check' =
                          [i \in 1..3 |-> [stage |-> StageNames[i], date_str |-> d[i].val]]
                   /\ stage_idx' = 1
                   /\ pc' = "stage"
                   /\ UNCHANGED <<log, exit_status>>
              ELSE /\ log' = Append(log, handle_exception(exc))
                   /\ pc' = "exited"
                   /\ exit_status' = main_exit_status(exc)
                   /\ UNCHANGED <<title, author_mention, dates_to_check, stage_idx>>
    /\ UNCHANGED <<env, today, midnights, response, notifications_sent, calls,
                   evals, fn, arg, ret>>

\* the inner loop moves on: to the next entry, or back to the outer loop
Advance ==
    IF stage_idx < 3
    THEN stage_idx' = stage_idx + 1 /\ pc' = "stage"
    ELSE stage_idx' = 0 /\ pc' = "page"

\* lines 113-117: one entry of dates_to_check
CheckMilestone ==
    /\ pc = "stage"
    /\ LET entry == dates_to_check[stage_idx]
           near  == check_date_proximity(entry.date_str, today)
           eval  == [page |-> page_idx, stage |-> stage_idx, now |-> today, sent |-> ""]
       IN  IF near.exc # ""
           THEN /\ evals' = Append(evals, eval)
                /\ log' = Append(log, handle_exception(near.exc))
                /\ pc' = "exited"
                /\ exit_status' = main_exit_status(near.exc)
                /\ UNCHANGED <<calls, notifications_sent, stage_idx>>
           ELSE IF ~near.truth
           THEN /\ evals' = Append(evals, eval)
                /\ Advance
                /\ UNCHANGED <<calls, log, notifications_sent, exit_status>>
           ELSE \E outcome \in DeliveryOutcomes :
                  LET sent == send_slack_message(author_mention, title, entry.stage,
                                                 outcome, env["SLACK_CHANNEL_ID"])
                      due  == LogRecord("INFO", "Deadline approaching", <<entry.stage>>)
                  IN  /\ evals' = Append(evals, [eval EXCEPT !.sent = outcome])
                      /\ calls' = Append(calls, sent.call)
                      /\ IF sent.exc # ""
                         THEN /\ log' = (log \o <<due>> \o sent.log)
                                            \o <<handle_exception(sent.exc)>>
                              /\ pc' = "exited"
                              /\ exit_status' = main_exit_status(sent.exc)
                              /\ UNCHANGED <<notifications_sent, stage_idx>>
                         ELSE /\ log' = (log \o <<due>>) \o sent.log
                              /\ notifications_sent' =
                                     count_notification(notifications_sent, outcome)
                              /\ Advance
                              /\ UNCHANGED exit_status
    /\ UNCHANGED <<env, today, midnights, response, page_idx, title, author_mention,
                   dates_to_check, processed_pages, fn, arg, ret>>

\* line 119, and the end of the process
Finish ==
    /\ pc = "page"
    /\ page_idx = Len(Results)
    /\ log' = Append(log, LogRecord("INFO", "Script finished",
                                    <<processed_pages, notifications_sent>>))
    /\ pc' = "exited"
    /\ exit_status' = main_exit_status("")
    /\ UNCHANGED <<env, today, midnights, response, page_idx, stage_idx, title,
                   author_mention, dates_to_check, processed_pages,
                   notifications_sent, calls, evals, fn, arg, ret>>

\* the local date changes while the run is under way
Midnight ==
    /\ pc \in {"main", "page", "stage"}
    /\ midnights < MaxMidnights
    /\ midnights' = midnights + 1
    /\ today' = AddDays(today, 1)
    /\ UNCHANGED <<env, pc, exit_status, response, page_idx, stage_idx, title,
                   author_mention, dates_to_check, processed_pages,
                   notifications_sent, calls, log, evals, fn, arg, ret>>

(***************************************************************************)
(* The inputs of a run: the environment and the pages the query returns    *)
(***************************************************************************)
Token == PyStr(<<"t", "o", "k">>)

CompleteEnv == [n \in EnvNames |-> Token]

\* complete, or one variable unset (None) or set to the empty string
Envs ==
    {CompleteEnv}
    \cup {[CompleteEnv EXCEPT ![n] = v] : n \in EnvNames, v \in {PyNone, PyStr(<<>>)}}

StartDay == Date(2024, 2, 28)

Tomorrow == PyStr(<<"2", "0", "2", "4", "-", "0", "2", "-", "2", "9">>)

DayAfter == PyStr(<<"2", "0", "2", "4", "-", "0", "3", "-", "0", "1">>)

Malformed == PyStr(<<"2", "0", "2", "4", "-", "1", "3", "-", "4", "0">>)

Alice == PyStr(<<"A", "l", "i", "c", "e">>)

TitleProp(text) == Typed(TypeTitle, "title", PyList(<<Single("plain_text", text)>>))

PeopleProp(name) == Typed(TypePeople, "people", PyList(<<Single("name", name)>>))

DateObject(start) == PyDict([x \in {"start", "end"} |-> IF x = "start" THEN start ELSE PyNone])

DateProp(start) == Typed(TypeDate, "date", DateObject(start))

Page(id, properties) ==
    PyDict([x \in {"id", "properties"} |-> IF x = "id" THEN PyStr(<<id>>) ELSE PyDict(properties)])

\* A: first draft due tomorrow
PageA ==
    Page("A", [title |-> TitleProp(Foo), author |-> PeopleProp(Alice),
               first_draft_date |-> DateProp(Tomorrow)])

\* B: no dates (an empty date property, a key left out, a date without start)
PageB ==
    Page("B", [title |-> TitleProp(Bar), author |-> PeopleProp(Alice),
               first_draft_date |-> Typed(TypeDate, "date", PyNone),
               publishing_date |-> DateProp(PyNone)])

\* C: published tomorrow, ready the day after
PageC ==
    Page("C", [title |-> TitleProp(Foo),
               ready_by_date |-> DateProp(DayAfter),
               publishing_date |-> DateProp(Tomorrow)])

\* D: all three milestones tomorrow
PageD ==
    Page("D", [title |-> TitleProp(Bar), author |-> PeopleProp(Alice),
               first_draft_date |-> DateProp(Tomorrow),
               ready_by_date |-> DateProp(Tomorrow),
               publishing_date |-> DateProp(Tomorrow)])

\* E: a date object without start, an empty start, then a date due tomorrow
PageE ==
    Page("E", [title |-> TitleProp(Foo), author |-> PeopleProp(Alice),
               first_draft_date |-> Typed(TypeDate, "date", Single("end", DayAfter)),
               ready_by_date |-> DateProp(PyStr(<<>>)),
               publishing_date |-> DateProp(Tomorrow)])

\* M: a malformed ready-by date between two dates due tomorrow
PageM ==
    Page("M", [title |-> TitleProp(Foo), author |-> PeopleProp(Alice),
               first_draft_date |-> DateProp(Tomorrow),
               ready_by_date |-> DateProp(Malformed),
               publishing_date |-> DateProp(Tomorrow)])

\* X: a malformed record (a null title property) with a date due tomorrow
PageX ==
    Page("X", [title |-> PyNone, author |-> PeopleProp(Alice),
               first_draft_date |-> DateProp(Tomorrow)])

Pages == {PageA, PageB, PageC, PageD, PageE, PageM, PageX}

\* a query lists each page once
ResultLists ==
    {rs \in UNION {[1..n -> Pages] : n \in 0..MaxPages} :
        \A i, j \in 1..Len(rs) : rs[i] = rs[j] => i = j}

QueryErrors == {"APIResponseError", "RequestTimeoutError"}

Init ==
    /\ env \in Envs
    /\ pc = "load"
    /\ exit_status = 0
    /\ today = StartDay
    /\ midnights = 0
    /\ response = PyNone
    /\ page_idx = 0
    /\ stage_idx = 0
    /\ title = PyNone
    /\ author_mention = PyNone
    /\ dates_to_check = <<>>
    /\ processed_pages = 0
    /\ notifications_sent = 0
    /\ calls = <<>>
    /\ log = <<>>
    /\ evals = <<>>
    /\ fn = ""
    /\ arg = PyNone
    /\ ret = Returns(PyNone)

Next ==
    \/ ConfigCheck
    \/ \E results \in ResultLists : QueryReturns(results)
    \/ \E exc \in QueryErrors : QueryRaises(exc)
    \/ NextPage
    \/ CheckMilestone
    \/ Finish
    \/ Midnight

Spec == Init /\ [][Next]_vars

(***************************************************************************)
(* Unit calls of check_date_proximity: the argument and the clock are      *)
(* drawn from bounded sets, the call is one step.                          *)
(***************************************************************************)
Dig(n) == Digits[n + 1]

Year4(y) ==
    <<Dig(y \div 1000), Dig((y \div 100) % 10), Dig((y \div 10) % 10), Dig(y % 10)>>

TwoDigit(n) == <<Dig(n \div 10), Dig(n % 10)>>

\* date.isoformat(): the YYYY-MM-DD spelling of a date
isoformat(d) ==
    Year4(d.year) \o <<"-">> \o TwoDigit(d.month) \o <<"-">> \o TwoDigit(d.day)

MonthForms(m) == {TwoDigit(m)} \cup (IF m < 10 THEN {<<Dig(m)>>} ELSE {})

DayForms(d) ==
    {TwoDigit(d)} \cup (IF d < 10 THEN {<<Dig(d)>>, <<" ", Dig(d)>>} ELSE {})

\* every spelling of a date with a four-digit year and a month and a day of
\* one or two characters
Spellings(d) ==
    {Year4(d.year) \o <<"-">> \o mf \o <<"-">> \o df :
        mf \in MonthForms(d.month), df \in DayForms(d.day)}

Years == 2023..2025

\* the Gregorian calendar, stated without the ordinal arithmetic
LastDay(y, m) ==
    IF m \in {4, 6, 9, 11} THEN 30
    ELSE IF m # 2 THEN 31
    ELSE IF y % 400 = 0 \/ (y % 4 = 0 /\ y % 100 # 0) THEN 29
    ELSE 28

CalendarDates ==
    {x \in {Date(y, m, d) : y \in Years, m \in 1..12, d \in 1..31} :
        x.day <= LastDay(x.year, x.month)}

NextCalendarDay(d) ==
    IF d.day < LastDay(d.year, d.month) THEN Date(d.year, d.month, d.day + 1)
    ELSE IF d.month < 12 THEN Date(d.year, d.month + 1, 1)
    ELSE Date(d.year + 1, 1, 1)

Todays ==
    {Date(2023, 2, 27), Date(2023, 2, 28), Date(2024, 2, 27), Date(2024, 2, 28),
     Date(2024, 2, 29), Date(2023, 12, 30), Date(2023, 12, 31), Date(2024, 3, 8),
     Date(2024, 3, 9), Date(2024, 9, 30), Date(2024, 10, 30)}

NearDates ==
    Todays \cup {NextCalendarDay(t) : t \in Todays}
           \cup {NextCalendarDay(NextCalendarDay(t)) : t \in Todays}

MalformedDates ==
    {<<"n", "o", "t", "-", "a", "-", "d", "a", "t", "e">>,
     <<"2", "0", "2", "4", "-", "1", "3", "-", "4", "0">>,
     <<"2", "0", "2", "4", "-", "0", "2", "-", "3", "0">>,
     <<"2", "0", "2", "3", "-", "0", "2", "-", "2", "9">>,
     <<"2", "0", "2", "4", "-", "0", "2", "-", "2", "9", "x">>,
     <<"2", "0", "2", "4", "-", "0", "2", "-", "2", "9", " ">>,
     <<" ", "2", "0", "2", "4", "-", "0", "2", "-", "2", "9">>,
     <<"2", "4", "-", "0", "2", "-", "2", "9">>,
     <<"2", "0", "2", "4", "/", "0", "2", "/", "2", "9">>,
     <<"2", "0", "2", "4", "-", "0", "0", "-", "1", "0">>,
     <<"2", "0", "2", "4", "-", "0", "3", "-", "0", "0">>,
     <<"0", "0", "0", "0", "-", "0", "1", "-", "0", "1">>,
     <<"2", "0", "2", "4", "-", "0", "1", "1", "-", "5">>,
     <<"2", "0", "2", "4", "-", "0", "1", "-", "3", "2">>,
     <<"2", "0", "2", "4", "-", "0", "2", "-">>,
     <<"2", "0", "2", "4", "0", "2", "2", "9">>,
     <<"2", "0", "2", "4", "-", "0", "2", "-", "2", " ", "9">>,
     <<"x">>}

DateInputs ==
    {PyNone, PyStr(<<>>)}
    \cup {PyStr(s) : s \in UNION {Spellings(d) : d \in NearDates}}
    \cup {PyStr(s) : s \in MalformedDates}

Idle ==
    /\ env = EmptyMap
    /\ pc = "unit"
    /\ exit_status = 0
    /\ midnights = 0
    /\ response = PyNone
    /\ page_idx = 0
    /\ stage_idx = 0
    /\ title = PyNone
    /\ author_mention = PyNone
    /\ dates_to_check = <<>>
    /\ processed_pages = 0
    /\ notifications_sent = 0
    /\ calls = <<>>
    /\ log = <<>>
    /\ evals = <<>>

InitDate ==
    /\ Idle
    /\ today \in Todays
    /\ arg \in DateInputs
    /\ fn = ""
    /\ ret = [exc |-> "", truth |-> FALSE]

CallCheckDateProximity ==
    /\ fn = ""
    /\ fn' = "check_date_proximity"
    /\ ret' = check_date_proximity(arg, today)
    /\ UNCHANGED <<arg, today>>
    /\ UNCHANGED runVars

NextDate == CallCheckDateProximity

SpecDate == InitDate /\ [][NextDate]_vars

(***************************************************************************)
(* Unit calls of the three extraction helpers: the property mapping is     *)
(* drawn from well-formed and malformed shapes, each call is one step.     *)
(***************************************************************************)
\* one entry of a title or people list, or a date object: well-formed,
\* without the field, with an empty or null field, or not a mapping at all
EntryShapes(field) ==
    {Single(field, Foo), Single(field, PyStr(<<>>)), Single(field, PyNone),
     Single("id", Bar), PyDict(EmptyMap), PyStr(<<"x">>), PyNone}

ListPayloads(field) ==
    {PyList(<<>>), PyStr(<<"a", "b", "c">>), PyStr(<<>>), PyNone, Single("a", Bar),
     PyList(<<Single(field, Foo), Single(field, Bar)>>),
     PyList(<<PyDict(EmptyMap), Single(field, Bar)>>)}
    \cup {PyList(<<e>>) : e \in EntryShapes(field)}

DatePayloads ==
    EntryShapes("start")
    \cup {PyList(<<>>), PyList(<<Single("start", Foo)>>),
          PyDict([x \in {"start", "end"} |-> IF x = "start" THEN Foo ELSE Bar])}

TypeTags(tag) == {tag, PyStr(<<"r", "i", "c", "h", "_", "t", "e", "x", "t">>), PyNone}

\* a property value: not a mapping, a mapping without payload or without
\* type tag, or a tagged payload
PropShapes(tag, key, payloads) ==
    {PyNone, PyStr(<<"x">>), PyDict(EmptyMap)}
    \cup {Single("type", ty) : ty \in TypeTags(tag)}
    \cup {Single(key, p) : p \in payloads}
    \cup {Typed(ty, key, p) : ty \in TypeTags(tag), p \in payloads}

DateProps ==
    {NOTION_FIRST_DRAFT_DATE_PROP, NOTION_READY_BY_DATE_PROP,
     NOTION_PUBLISHING_DATE_PROP}

PropertyMappings ==
    {PyDict(EmptyMap)}
    \cup {Single(NOTION_TITLE_PROP, p) :
             p \in PropShapes(TypeTitle, "title", ListPayloads("plain_text"))}
    \cup {Single(NOTION_AUTHOR_PROP, p) :
             p \in PropShapes(TypePeople, "people", ListPayloads("name"))}
    \cup {Single(n, p) : n \in DateProps, p \in PropShapes(TypeDate, "date", DatePayloads)}

InitExtract ==
    /\ Idle
    /\ today = Date(2024, 2, 28)
    /\ arg \in PropertyMappings \X DateProps
    /\ fn = ""
    /\ ret = Returns(PyNone)

CallGetPageTitle ==
    /\ fn = ""
    /\ fn' = "get_page_title"
    /\ ret' = get_page_title(arg[1])
    /\ UNCHANGED <<arg, today>>
    /\ UNCHANGED runVars

CallGetPageAuthorMention ==
    /\ fn = ""
    /\ fn' = "get_page_author_mention"
    /\ ret' = get_page_author_mention(arg[1])
    /\ UNCHANGED <<arg, today>>
    /\ UNCHANGED runVars

CallGetDateProperty ==
    /\ fn = ""
    /\ fn' = "get_date_property"
    /\ ret' = get_date_property(arg[1], arg[2])
    /\ UNCHANGED <<arg, today>>
    /\ UNCHANGED runVars

NextExtract ==
    \/ CallGetPageTitle
    \/ CallGetPageAuthorMention
    \/ CallGetDateProperty

SpecExtract == InitExtract /\ [][NextExtract]_vars

\* v is a date written YYYY-MM-DD, zero-padded
WellFormedDate(v) ==
    v.k = "str" /\ \E d \in CalendarDates : v.s = isoformat(d)

SpellsADate(v) ==
    /\ v.k = "str"
    /\ Len(v.s) > 5
    /\ \E y \in Years :
          /\ SubSeq(v.s, 1, 5) = Year4(y) \o <<"-">>
          /\ \E m \in 1..12 : \E mf \in MonthForms(m) :
                 LET head == Year4(y) \o <<"-">> \o mf \o <<"-">>
                 IN  /\ Len(v.s) > Len(head)
                     /\ SubSeq(v.s, 1, Len(head)) = head
                     /\ \E d \in 1..LastDay(y, m) : \E df \in DayForms(d) :
                            v.s = head \o df

ExtractionCalls == {"get_page_title", "get_page_author_mention", "get_date_property"}

(***************************************************************************)
(* C5 as stated: get_page_title, get_page_author_mention and               *)
(* get_date_property are total: for every property mapping, well-formed or *)
(* malformed, each returns a value and never raises.                       *)
(***************************************************************************)
C5_ExtractionTotal == fn \in ExtractionCalls => ret.exc = ""

\* v is a mapping that has key
HasKey(v, key) == v.k = "dict" /\ key \in DOMAIN v.map

\* the entries a property lists under key: none unless it holds a list there
Entries(properties, prop, key) ==
    IF HasKey(properties, prop) /\ HasKey(properties.map[prop], key)
          /\ properties.map[prop].map[key].k = "list"
    THEN properties.map[prop].map[key].items
    ELSE <<>>

\* the value C8 gives for the property prop of kind tag, listing under key
\* entries that carry field
FirstEntryOrDefault(properties, prop, tag, key, field, default) ==
    LET entries == Entries(properties, prop, key)
    IN  IF \/ ~HasKey(properties, prop)
           \/ ~HasKey(properties.map[prop], "type")
           \/ properties.map[prop].map["type"] # tag
           \/ entries = <<>>
           \/ ~HasKey(entries[1], field)
        THEN default
        ELSE entries[1].map[field]

(***************************************************************************)
(* C8 as stated: title and author extraction return the documented default *)
(* exactly when the property key is absent, its type tag is not "title" /  *)
(* "people", its entry list is empty, or the first entry lacks the         *)
(* plain_text / name field; in every other case they return the plain_text *)
(* of the first title segment / the name of the first listed person.       *)
(***************************************************************************)
C8_AsStated ==
    /\ fn = "get_page_title" =>
           ret = Returns(FirstEntryOrDefault(arg[1], NOTION_TITLE_PROP, TypeTitle,
                                             "title", "plain_text", Untitled))
    /\ fn = "get_page_author_mention" =>
           ret = Returns(FirstEntryOrDefault(arg[1], NOTION_AUTHOR_PROP, TypePeople,
                                             "people", "name", UnknownAuthor))

\* C8 holds wherever the helper returns: it fails only by raising (C5)
C8_WhereItReturns ==
    /\ (fn = "get_page_title" /\ ret.exc = "") =>
           ret = Returns(FirstEntryOrDefault(arg[1], NOTION_TITLE_PROP, TypeTitle,
                                             "title", "plain_text", Untitled))
    /\ (fn = "get_page_author_mention" /\ ret.exc = "") =>
           ret = Returns(FirstEntryOrDefault(arg[1], NOTION_AUTHOR_PROP, TypePeople,
                                             "people", "name", UnknownAuthor))

(***************************************************************************)
(* What the claims about a run speak of: the records fetched, the          *)
(* milestone dates they declare, and the notifications posted              *)
(***************************************************************************)
Last(s) == s[Len(s)]

IsPost(c) == c.api = "chat_postMessage"

Posts == SelectSeq(calls, IsPost)

Fetched == response # PyNone

\* the property prop of fetched record i, None when the record has none
PropertyOf(i, prop) ==
    LET page == Results[i]
    IN  IF HasKey(page, "properties") /\ HasKey(page.map["properties"], prop)
        THEN page.map["properties"].map[prop]
        ELSE PyNone

\* the date object of milestone k of record i, None when it declares none
DateObjectOf(i, k) ==
    LET prop == PropertyOf(i, StageProps[k])
    IN  IF HasKey(prop, "type") /\ prop.map["type"] = TypeDate /\ HasKey(prop, "date")
        THEN prop.map["date"]
        ELSE PyNone

\* the start date of milestone k of record i, None when absent
DateOf(i, k) ==
    LET object == DateObjectOf(i, k)
    IN  IF HasKey(object, "start") THEN object.map["start"] ELSE PyNone

\* milestone k of record i is due the day after `now`
IsDue(i, k, now) ==
    LET start == DateOf(i, k)
    IN  start.k = "str" /\ start.s \in Spellings(NextCalendarDay(now))

\* milestone k of record i carries a date string that spells no date
IsMalformed(i, k) ==
    LET start == DateOf(i, k)
    IN  start.k = "str" /\ start.s # <<>> /\ ~SpellsADate(start)

\* milestone k of record i has a date object whose start is missing, null or ""
HasEmptyStart(i, k) ==
    /\ DateObjectOf(i, k).k = "dict"
    /\ DateOf(i, k) \in {PyNone, PyStr(<<>>)}

\* the (record, milestone) pairs of the fetched result, in processing order
AllPairs == [n \in 1..(3 * Len(Results)) |-> <<((n - 1) \div 3) + 1, ((n - 1) % 3) + 1>>]

WasSent(e) == e.sent # ""

PairOf(e) == <<e.page, e.stage>>

\* the pairs a notification was dispatched for, in dispatch order
SentPairs ==
    LET sent == SelectSeq(evals, WasSent)
    IN  [n \in 1..Len(sent) |-> PairOf(sent[n])]

UnexpectedError(exc) == LogRecord("ERROR", "An unexpected error occurred", <<exc>>)

\* the dispatches are the posts, each carrying its record's stage label
PostsMatchEvals ==
    /\ Len(Posts) = Len(SentPairs)
    /\ \A n \in 1..Len(Posts) : Posts[n].text[5] = StageNames[SentPairs[n][2]]

\* every milestone date of the fetched records is absent or well-formed
DatesAbsentOrWellFormed ==
    \A i \in 1..Len(Results), k \in 1..3 :
        DateOf(i, k) \in {PyNone, PyStr(<<>>)} \/ WellFormedDate(DateOf(i, k))

\* the pairs whose date is the day after `now`, in processing order
DuePairs(now) ==
    LET Due(p) == IsDue(p[1], p[2], now)
    IN  SelectSeq(AllPairs, Due)

(***************************************************************************)
(* C1 as stated: in a run where the fetch succeeds, every date is absent   *)
(* or well-formed and every delivery succeeds, the notifications           *)
(* dispatched are exactly the (record, milestone) pairs whose date is      *)
(* today + 1, in fetched-record order and, within a record, in the order   *)
(* first draft, final draft, published version.                            *)
(***************************************************************************)
C1_AsStated ==
    (/\ pc = "exited"
     /\ Fetched
     /\ midnights = 0
     /\ DatesAbsentOrWellFormed
     /\ \A n \in 1..Len(Posts) : Posts[n].result = "ok")
    => (PostsMatchEvals /\ SentPairs = DuePairs(today))

\* a fetched record is malformed when a property it carries is no mapping
NoMalformedRecord ==
    \A i \in 1..Len(Results) :
        \A prop \in {NOTION_TITLE_PROP, NOTION_AUTHOR_PROP} \cup DateProps :
            HasKey(Results[i].map["properties"], prop) => PropertyOf(i, prop).k = "dict"

\* C1 holds of the runs that fetch no malformed record: it fails only by
\* an extraction helper raising (C5)
C1_WithoutMalformedRecords ==
    (/\ pc = "exited"
     /\ Fetched
     /\ midnights = 0
     /\ DatesAbsentOrWellFormed
     /\ NoMalformedRecord
     /\ \A n \in 1..Len(Posts) : Posts[n].result = "ok")
    => (PostsMatchEvals /\ SentPairs = DuePairs(today))

(***************************************************************************)
(* C3: when main() reaches a milestone whose date is present but           *)
(* malformed, the run stops at that milestone: it is the last one          *)
(* evaluated, nothing is posted for it, the failure is logged by the       *)
(* top-level generic handler, and the notifications dispatched before it   *)
(* (one per earlier pair that was due when evaluated) remain posted.       *)
(***************************************************************************)
C3_ParseFailureAborts ==
    \A n \in 1..Len(evals) :
        IsMalformed(evals[n].page, evals[n].stage) =>
            /\ n = Len(evals)
            /\ evals[n].sent = ""
            /\ pc = "exited"
            /\ Last(log) = UnexpectedError("ValueError")
            /\ PostsMatchEvals
            /\ \A m \in 1..(n - 1) :
                   WasSent(evals[m]) <=> IsDue(evals[m].page, evals[m].stage, evals[m].now)

\* C3 witness: the run stopped at a malformed date after it had posted a notification
C3_Witness ==
    /\ evals # <<>>
    /\ IsMalformed(Last(evals).page, Last(evals).stage)
    /\ Last(evals).stage = 2
    /\ Posts # <<>>
    /\ pc = "exited"

\* this step posted a message that the sink did not accept
PostFailed ==
    /\ Len(calls') = Len(calls) + 1
    /\ IsPost(Last(calls'))
    /\ Last(calls').result # "ok"

(***************************************************************************)
(* C4 as stated: a delivery failure of any kind is caught inside           *)
(* send_slack_message and does not abort the run: the step that posts a    *)
(* message the sink does not accept leaves the run going.                  *)
(***************************************************************************)
C4_AsStated ==
    [][PostFailed =>
          /\ pc' # "exited"
          /\ Last(log').msg = "Error sending Slack message"]_vars

\* what holds: a SlackApiError is caught and logged, the run goes on and
\* counts the attempt
C4_ForSlackApiError ==
    [][(PostFailed /\ Last(calls').result = "SlackApiError") =>
          /\ pc' # "exited"
          /\ Last(log') = LogRecord("ERROR", "Error sending Slack message", <<"SlackApiError">>)
          /\ notifications_sent' = notifications_sent + 1]_vars

\* a required configuration value is unset
SomeValueAbsent == \E n \in EnvNames : env[n] = PyNone

(***************************************************************************)
(* C6: if one of the four required configuration values is absent, the     *)
(* process logs an error and exits with a non-zero status, and no network  *)
(* call is ever made; no network call precedes a successful configuration  *)
(* check.                                                                  *)
(***************************************************************************)
C6_MissingConfigurationExits ==
    /\ SomeValueAbsent =>
           /\ calls = <<>>
           /\ pc \in {"load", "exited"}
           /\ pc = "exited" => (exit_status # 0 /\ log # <<>> /\ Last(log).level = "ERROR")
    /\ calls # <<>> => \A n \in EnvNames : env[n] \notin {PyNone, PyStr(<<>>)}

\* C6 witness: the process exited on an absent value
C6_Witness == SomeValueAbsent /\ pc = "exited" /\ exit_status = 1

\* every required configuration value is set and non-empty
ConfigurationComplete == \A n \in EnvNames : env[n] \notin {PyNone, PyStr(<<>>)}

\* the query was issued and raised
FetchFailed == calls # <<>> /\ ~Fetched

(***************************************************************************)
(* C7: once configuration is complete the process exits with status 0, on  *)
(* normal completion (with no notification, or with refused deliveries)    *)
(* and on a record-source fetch failure, which is logged and dispatches no *)
(* notification; the status is non-zero only on missing configuration.     *)
(***************************************************************************)
C7_ExitStatus ==
    /\ pc = "exited" => (exit_status # 0 <=> ~ConfigurationComplete)
    /\ FetchFailed =>
           /\ pc = "exited"
           /\ exit_status = 0
           /\ Last(log).level = "ERROR"
           /\ Posts = <<>>

\* C7 witness: the process exited after the query raised
C7_Witness == FetchFailed /\ pc = "exited" /\ Last(log).msg = "Notion API Error"

\* the end-of-run summary is the last line logged
ReachedSummary == log # <<>> /\ Last(log).msg = "Script finished"

(***************************************************************************)
(* C9: when a run reaches its end-of-run summary, the processed count it   *)
(* reports is the number of fetched records and the sent count is the      *)
(* number of dispatch attempts: one per (record, milestone) pair that was  *)
(* due tomorrow when evaluated, a refused delivery counting like a         *)
(* delivered one.                                                          *)
(***************************************************************************)
C9_SummaryCounts ==
    ReachedSummary =>
        /\ Last(log).detail = <<Len(Results), Len(Posts)>>
        /\ [n \in 1..Len(evals) |-> PairOf(evals[n])] = AllPairs
        /\ Len(Posts) =
               Cardinality({n \in 1..Len(evals) :
                               IsDue(evals[n].page, evals[n].stage, evals[n].now)})

\* C9 witness: a summary that counts a refused delivery
C9_Witness ==
    /\ ReachedSummary
    /\ \E n \in 1..Len(Posts) : Posts[n].result = "SlackApiError"
    /\ Last(log).detail[2] = 2

(***************************************************************************)
(* C10: a date property of type "date" whose date object has a missing,    *)
(* null or empty start is an absent milestone: get_date_property yields    *)
(* None or "", the proximity check returns false without raising, nothing  *)
(* is posted for it and the run goes on; a date evaluation aborts the run  *)
(* only on a non-empty string that spells no date.                         *)
(***************************************************************************)
C10_EmptyStartIsAbsent ==
    /\ pc = "stage" =>
           \A k \in 1..3 :
               HasEmptyStart(page_idx, k) =>
                   dates_to_check[k].date_str \in {PyNone, PyStr(<<>>)}
    /\ \A n \in 1..Len(evals) :
           HasEmptyStart(evals[n].page, evals[n].stage) =>
               /\ evals[n].sent = ""
               \* the run went on from it: it is running, or it ended at the
               \* summary or in a later record
               /\ n = Len(evals) =>
                      (pc # "exited" \/ ReachedSummary \/ page_idx > evals[n].page)
    /\ (pc = "exited" /\ Last(log).detail \in {<<"ValueError">>, <<"TypeError">>}) =>
           IsMalformed(Last(evals).page, Last(evals).stage)

\* C10 witness: an empty start was passed over and a later milestone of the record notified
C10_Witness ==
    \E n \in 1..Len(evals) :
        /\ HasEmptyStart(evals[n].page, evals[n].stage)
        /\ DateOf(evals[n].page, evals[n].stage) = PyStr(<<>>)
        /\ n < Len(evals)
        /\ evals[n + 1].page = evals[n].page
        /\ WasSent(evals[n + 1])

====
